---------------------------- MODULE Spec2Model ----------------------------
(***************************************************************************)
(* Session / trigger / notification core of ikurchat/jobs.                 *)
(*                                                                         *)
(*   SpecSession    SessionManager and UserSession                         *)
(*                  (src/src/users/session_manager.py)                     *)
(*                                                                         *)
(* Texts are sequences of one-character strings.  Resume tokens are the    *)
(* numbers 1..MaxTok, NoToken (0) is Python's None / a missing file.       *)
(***************************************************************************)
EXTENDS Naturals, Sequences, FiniteSets

\* ------------------------------------------------------------- bounds ---
MaxRecipient == 2      \* recipient ids 1..MaxRecipient
MaxTok == 2            \* resume tokens the backend can mint
MaxInst == 2           \* UserSession objects constructed in one run
MaxCalls == 2          \* query() calls that can be in flight at once
MaxReplyLen == 3       \* length of a backend reply
MaxAssignee == 3       \* task assignee ids 1..MaxAssignee
MaxOverdue == 5        \* overdue tasks of one assignee
ShortReplyLen == 1     \* length of a reply where two components run together
MaxErrorLen == 2       \* length of the message of a backend exception
MaxHandles == 2        \* Updater.handle() calls that can be in flight at once
MaxFound == 4          \* checks of the updater that find commits in one run
\* executor.py:19 and heartbeat.py:34 set 4000; the texts of the model are
\* scaled down with it
MAX_MESSAGE_LENGTH == 3

\* settings.tg_user_id: the one configured owner id
OwnerId == 1

Recipients == 1..MaxRecipient
Tokens == 1..MaxTok
NoToken == 0
InstIds == 1..MaxInst
NoInst == 0
Calls == 1..MaxCalls
Assignees == 1..MaxAssignee
Runners == {"loop", "manual"}   \* _check run by _loop, or by trigger_now

VARIABLES
    sessionFile,   \* [Recipients -> Tokens \cup {NoToken}]: <id>.session files
    sessions,      \* SessionManager._sessions: recipient -> instance or NoInst
    nInst,         \* number of UserSession objects constructed so far
    instRid,       \* UserSession.telegram_id of each constructed instance
    instOwner,     \* UserSession.is_owner of each constructed instance
    instTok,       \* UserSession._session_id of each constructed instance
    call,          \* the query() calls: position and locals of each
    lastGet,       \* history: what get_session(r) returned since r's last reset
    gotTwice,      \* history: get_session(r) was called again since then
    lastRet,       \* history: what the last finished query() returned
    afterReset     \* history: r when the last step was reset_session(r), else 0

VARIABLES
    tpc,           \* TriggerExecutor.execute: "idle", "querying", or how it ended
    ev,            \* the TriggerEvent being executed
    trigEph,       \* the execute()'s ephemeral session: none / live / destroyed
    reply,         \* what session.query returned to execute()
    tResult,       \* what execute() returned: [some |-> BOOLEAN, text |-> ...]
    trigSent,      \* transport spy: messages sent by the current execute()
    buffered       \* records the current execute() appended to the owner session

trigVars == <<tpc, ev, trigEph, reply, tResult, trigSent, buffered>>

VARIABLES
    users,         \* users repository: id -> [known, whitelisted, banned]
    gateLast,      \* history: the last RecipientGate call and its answer
    gateAllowed    \* history: the user ids a RecipientGate call has allowed

gateVars == <<users, gateLast, gateAllowed>>

VARIABLES
    overdue,       \* task repository: assignee -> number of overdue tasks
    running,       \* HeartbeatRunner._running
    loopPc,        \* HeartbeatRunner._task: "none", "first_sleep", "sleep",
                   \*   "check", or "ended"
    cancelReq,     \* _task.cancel() was called and is not delivered yet
    stopPc,        \* stop(): "idle", or "awaiting" the cancelled task
    chk,           \* the _check runs: position and ephemeral session of each
    remind,        \* what each _check run sent as reminders, per assignee
    hbLast,        \* the briefing of each _check run: reply, message sent
    phase          \* history of the loop since start(): "none", "fresh" (no
                   \*   sleep is over yet), "early" (stopped while fresh),
                   \*   "checked" (one check begun), "rechecked" (several)

hbVars == <<overdue, running, loopPc, cancelReq, stopPc, chk, remind, hbLast,
            phase>>

VARIABLES
    ephResume      \* the resume token each ephemeral session is built with

EphOwners == {"trigger"} \cup Runners

VARIABLES
    _pending,      \* Updater._pending
    updPc,         \* the handle() calls: "idle", or "checking" (line 28)
    updTriggered,  \* history: number of _trigger_update tasks created
    updFound,      \* history: number of checks that found commits
    updLast        \* history: how the last handle() step ended

Handles == 1..MaxHandles
updVars == <<_pending, updPc, updTriggered, updFound, updLast>>

sessVars == <<sessionFile, sessions, nInst, instRid, instOwner, instTok, call,
              lastGet, gotTwice, lastRet, afterReset>>

vars == <<sessVars, trigVars, gateVars, hbVars, ephResume, updVars>>
notSess == <<trigVars, gateVars, hbVars, ephResume, updVars>>
notTrig == <<gateVars, hbVars, updVars>>
notUpd == <<sessVars, trigVars, gateVars, hbVars, ephResume>>

\* ------------------------------------------------------- UserSession ---
IdleCall == [pc |-> "idle", inst |-> NoInst, resume |-> NoToken,
             fileBefore |-> NoToken, evTok |-> NoToken]

\* UserSession._load_session_id: the stripped file content, None when the
\* file is missing or empty
_load_session_id(r) == sessionFile[r]

\* UserSession.__init__ called without is_owner (its default, line 42)
NewSession_default_role(r) ==
    /\ nInst' = nInst + 1
    /\ instRid' = [instRid EXCEPT ![nInst + 1] = r]
    /\ instOwner' = [instOwner EXCEPT ![nInst + 1] = FALSE]
    /\ instTok' = [instTok EXCEPT ![nInst + 1] = _load_session_id(r)]

\* UserSession.__init__ as called by get_session: a new object for r
NewSession(r) ==
    /\ nInst' = nInst + 1
    /\ instRid' = [instRid EXCEPT ![nInst + 1] = r]
    /\ instOwner' = [instOwner EXCEPT ![nInst + 1] = (r = OwnerId)]
    /\ instTok' = [instTok EXCEPT ![nInst + 1] = _load_session_id(r)]

\* UserSession.reset applied to instance i: the new (_session_id, file content)
reset_skip(i) == <<instTok, sessionFile>>
reset(i) ==
    << [instTok EXCEPT ![i] = NoToken],
       [sessionFile EXCEPT ![instRid[i]] = NoToken] >>

\* line 221: the cache lookup of get_session
get_session_miss_always(r) == FALSE
get_session_hit(r) == sessions[r] # NoInst

\* get_session without the cache insertion of line 238
get_session_uncached(r) ==
    /\ IF get_session_hit(r)
       THEN /\ lastGet' = [lastGet EXCEPT ![r] = sessions[r]]
            /\ gotTwice' = [gotTwice EXCEPT ![r] = (lastGet[r] # NoInst)]
            /\ UNCHANGED <<sessions, nInst, instRid, instOwner, instTok>>
       ELSE /\ nInst < MaxInst
            /\ NewSession(r)
            /\ sessions' = sessions
            /\ lastGet' = [lastGet EXCEPT ![r] = nInst + 1]
            /\ gotTwice' = [gotTwice EXCEPT ![r] = (lastGet[r] # NoInst)]
    /\ afterReset' = 0
    /\ UNCHANGED <<sessionFile, call, lastRet>>

\* SessionManager.get_session(r)
get_session(r) ==
    /\ IF get_session_hit(r)
       THEN /\ lastGet' = [lastGet EXCEPT ![r] = sessions[r]]
            /\ gotTwice' = [gotTwice EXCEPT ![r] = (lastGet[r] # NoInst)]
            /\ UNCHANGED <<sessions, nInst, instRid, instOwner, instTok>>
       ELSE /\ nInst < MaxInst
            /\ NewSession(r)
            /\ sessions' = [sessions EXCEPT ![r] = nInst + 1]
            /\ lastGet' = [lastGet EXCEPT ![r] = nInst + 1]
            /\ gotTwice' = [gotTwice EXCEPT ![r] = (lastGet[r] # NoInst)]
    /\ afterReset' = 0
    /\ UNCHANGED <<sessionFile, call, lastRet>>

\* SessionManager.reset_session(r)
reset_session(r) ==
    /\ IF sessions[r] # NoInst
       THEN /\ instTok' = reset(sessions[r])[1]
            /\ sessionFile' = reset(sessions[r])[2]
            /\ sessions' = [sessions EXCEPT ![r] = NoInst]
       ELSE UNCHANGED <<instTok, sessionFile, sessions>>
    /\ lastGet' = [lastGet EXCEPT ![r] = NoInst]
    /\ gotTwice' = [gotTwice EXCEPT ![r] = FALSE]
    /\ afterReset' = r
    /\ UNCHANGED <<nInst, instRid, instOwner, call, lastRet>>

\* SessionManager.reset_all
reset_all ==
    /\ instTok' = [i \in InstIds |->
                     IF \E r \in Recipients : sessions[r] = i
                     THEN NoToken ELSE instTok[i]]
    /\ sessionFile' = [r \in Recipients |->
                     IF sessions[r] # NoInst THEN NoToken ELSE sessionFile[r]]
    /\ sessions' = [r \in Recipients |-> NoInst]
    /\ lastGet' = [r \in Recipients |-> NoInst]
    /\ gotTwice' = [r \in Recipients |-> FALSE]
    /\ afterReset' = 0
    /\ UNCHANGED <<nInst, instRid, instOwner, call, lastRet>>

\* src.tools OWNER_ALLOWED_TOOLS / EXTERNAL_ALLOWED_TOOLS, and the servers
\* get_mcp_config().to_mcp_json() registers
OWNER_ALLOWED_TOOLS == "owner tools"
EXTERNAL_ALLOWED_TOOLS == "external tools"
ExternalServers == {"external"}

\* UserSession._build_options of instance i, lines 76-101
_build_options(i) ==
    [permission_mode |-> IF instOwner[i] THEN "bypassPermissions" ELSE "default",
     allowed_tools |-> IF instOwner[i] THEN OWNER_ALLOWED_TOOLS
                       ELSE EXTERNAL_ALLOWED_TOOLS,
     mcp_servers |-> {"jobs"} \cup (IF instOwner[i] THEN ExternalServers ELSE {}),
     resume |-> instTok[i]]

\* UserSession.query, lines 107-112: the options are built (resume = the
\* token the object holds now) and the backend turn is opened
QueryStart(c, r) ==
    /\ call[c].pc = "idle"
    /\ sessions[r] # NoInst
    /\ call' = [call EXCEPT ![c] =
                 [IdleCall EXCEPT !.pc = "open", !.inst = sessions[r],
                                  !.resume = _build_options(sessions[r]).resume,
                                  !.fileBefore = sessionFile[r]]]
    /\ afterReset' = 0
    /\ UNCHANGED <<sessionFile, sessions, nInst, instRid, instOwner, instTok,
                   lastGet, gotTwice, lastRet>>

\* lines 114-123: the response stream up to its ResultMessage (the text
\* blocks before it are joined into the reply); a session_id the
\* ResultMessage carries is stored in the object and written to the file.
\* receive_response ends after it.
SaveNothing(i, t) == <<instTok, sessionFile>>
SaveToken(i, t) ==
    IF t # NoToken
    THEN << [instTok EXCEPT ![i] = t],
            [sessionFile EXCEPT ![instRid[i]] = t] >>
    ELSE <<instTok, sessionFile>>

QueryResult(c, t) ==
    /\ call[c].pc = "open"
    /\ instTok' = SaveToken(call[c].inst, t)[1]
    /\ sessionFile' = SaveToken(call[c].inst, t)[2]
    /\ call' = [call EXCEPT ![c].pc = "closing", ![c].evTok = t]
    /\ afterReset' = 0
    /\ UNCHANGED <<sessions, nInst, instRid, instOwner, lastGet, gotTwice,
                   lastRet>>

\* line 129: the client context exits normally and the reply is returned
QueryReturn(c) ==
    /\ call[c].pc = "closing"
    /\ call' = [call EXCEPT ![c] = IdleCall]
    /\ lastRet' = "reply"
    /\ afterReset' = 0
    /\ UNCHANGED <<sessionFile, sessions, nInst, instRid, instOwner, instTok,
                   lastGet, gotTwice>>

\* lines 125-127: any exception raised inside the try block (connect, query,
\* the response stream, or the client context's exit after the stream ended)
\* is caught and the error string is returned
QueryFail(c) ==
    /\ call[c].pc \in {"open", "closing"}
    /\ call' = [call EXCEPT ![c] = IdleCall]
    /\ lastRet' = "error"
    /\ afterReset' = 0
    /\ UNCHANGED <<sessionFile, sessions, nInst, instRid, instOwner, instTok,
                   lastGet, gotTwice>>

SessInit ==
    /\ sessionFile \in [Recipients -> Tokens \cup {NoToken}]
    /\ sessions = [r \in Recipients |-> NoInst]
    /\ nInst = 0
    /\ instRid = [i \in InstIds |-> 0]
    /\ instOwner = [i \in InstIds |-> FALSE]
    /\ instTok = [i \in InstIds |-> NoToken]
    /\ call = [c \in Calls |-> IdleCall]
    /\ lastGet = [r \in Recipients |-> NoInst]
    /\ gotTwice = [r \in Recipients |-> FALSE]
    /\ lastRet = "none"
    /\ afterReset = 0

GetSession == \E r \in Recipients : get_session(r) /\ UNCHANGED notSess
ResetSession == \E r \in Recipients : reset_session(r) /\ UNCHANGED notSess
ResetAll == reset_all /\ UNCHANGED notSess
StartQuery ==
    \E c \in Calls, r \in Recipients : QueryStart(c, r) /\ UNCHANGED notSess
ResultEvent ==
    \E c \in Calls, t \in Tokens \cup {NoToken} :
        QueryResult(c, t) /\ UNCHANGED notSess
ReturnQuery == \E c \in Calls : QueryReturn(c) /\ UNCHANGED notSess
FailQuery == \E c \in Calls : QueryFail(c) /\ UNCHANGED notSess

SessNext ==
    \/ GetSession
    \/ ResetSession
    \/ ResetAll
    \/ StartQuery
    \/ ResultEvent
    \/ ReturnQuery
    \/ FailQuery


\* ------------------------------------------------------------- texts ---
Alphabet == {" ", "O", "K"}
Whitespace == {" ", "\n"}
Ellipsis == <<".", ".", ".">>

RECURSIVE TextsOfLen(_)
TextsOfLen(n) ==
    IF n = 0 THEN {<<>>}
    ELSE {Append(t, ch) : t \in TextsOfLen(n - 1), ch \in Alphabet}

Replies == UNION {TextsOfLen(n) : n \in 0..MaxReplyLen}
ErrorMessages == UNION {TextsOfLen(n) : n \in 0..MaxErrorLen}
ShortReplies == UNION {TextsOfLen(n) : n \in 0..ShortReplyLen}

\* str.strip(): leading and trailing whitespace removed
RECURSIVE LStrip(_)
LStrip(s) ==
    IF s # <<>> /\ Head(s) \in Whitespace THEN LStrip(Tail(s)) ELSE s

RECURSIVE RStrip(_)
RStrip(s) ==
    IF s # <<>> /\ s[Len(s)] \in Whitespace
    THEN RStrip(SubSeq(s, 1, Len(s) - 1)) ELSE s

Strip(s) == RStrip(LStrip(s))

StartsWith(s, m) == Len(m) <= Len(s) /\ SubSeq(s, 1, Len(m)) = m

\* m in s
Contains(s, m) ==
    \E i \in 1..(Len(s) + 1) :
        i + Len(m) - 1 <= Len(s) /\ SubSeq(s, i, i + Len(m) - 1) = m

\* s.replace(m, ""): the non-overlapping occurrences of m, left to right
RECURSIVE Remove(_, _)
Remove(s, m) ==
    IF s = <<>> \/ m = <<>> THEN s
    ELSE IF StartsWith(s, m)
         THEN Remove(SubSeq(s, Len(m) + 1, Len(s)), m)
         ELSE <<Head(s)>> \o Remove(Tail(s), m)

\* ---------------------------------------------------- TriggerExecutor ---
\* session_manager.py line 127: the string query() returns for exception e
ErrorMark == "X"
ErrorReply(e) == <<ErrorMark, " ">> \o e

NoText == <<>>         \* None or "" of an optional text: both are falsy
NoResult == [some |-> FALSE, text |-> <<>>]
SomeResult(t) == [some |-> TRUE, text |-> t]

Events ==
    [preview : {NoText, <<"v">>},
     notify : BOOLEAN,
     marker : {NoText, <<"O", "K">>, <<" ", "K">>},
     prefix : {NoText, <<"p">>}]

NoEvent == [preview |-> NoText, notify |-> FALSE, marker |-> NoText,
            prefix |-> NoText]

\* the record receive_incoming gets from send_to_owner (line 94)
BufferRecord(text) == <<"B", "\n">> \o text

\* SessionManager.create_background_session / create_heartbeat_session: the
\* resume token of the session they build; no token, and nothing is cached
create_background_session_resuming == sessionFile[OwnerId]
create_background_session == NoToken
create_heartbeat_session == NoToken

\* session.destroy() of an ephemeral session: the session is released
destroy == "destroyed"

\* lines 49-52: try / finally around session.query, whatever its outcome
EphAfterQuery_no_finally(outcome) ==
    IF outcome = "returned" THEN destroy ELSE "live"
EphAfterQuery(outcome) == destroy

\* lines 57: the silent marker check on the stripped content
IsSilent_never(e, content) == FALSE
IsSilent(e, content) == e.marker # NoText /\ Contains(content, e.marker)

\* lines 62-63: the marker removed from a content that is delivered
Unmarked(e, content) ==
    IF e.marker # NoText THEN Strip(Remove(content, e.marker)) ELSE content

\* lines 68-69
Prefixed_no_newline(e, content) == e.prefix \o content
Prefixed(e, content) ==
    IF e.prefix # NoText THEN e.prefix \o <<"\n">> \o content ELSE content

\* lines 72-73
Truncated(content) ==
    IF Len(content) > MAX_MESSAGE_LENGTH
    THEN SubSeq(content, 1, MAX_MESSAGE_LENGTH) \o Ellipsis
    ELSE content

\* lines 61-73: the text execute() prepares from a stripped content that is
\* not silent; NoText when nothing is left (lines 65-66)
Prepared(e, content) ==
    IF Unmarked(e, content) = NoText THEN NoText
    ELSE Truncated(Prefixed(e, Unmarked(e, content)))

\* send_to_owner(text, buffer) succeeding: the transport gets the message
\* and, with buffer, the owner's session gets the record
send_to_owner(text, buffer) ==
    /\ trigSent' = Append(trigSent, [to |-> OwnerId, text |-> text])
    /\ IF buffer
       THEN /\ get_session(OwnerId)
            /\ buffered' = Append(buffered, BufferRecord(text))
       ELSE /\ buffered' = buffered
            /\ UNCHANGED sessVars

\* execute(e) sending its preview with buffer=True
ExecStart_buffering_preview(e) ==
    /\ tpc # "querying"
    /\ ev' = e
    /\ tpc' = "querying"
    /\ trigEph' = "live"
    /\ ephResume' = [ephResume EXCEPT !["trigger"] = create_background_session]
    /\ reply' = NoText
    /\ tResult' = NoResult
    /\ IF e.preview # NoText /\ e.notify
       THEN /\ trigSent' = <<[to |-> OwnerId, text |-> e.preview]>>
            /\ buffered' = <<BufferRecord(e.preview)>>
       ELSE /\ trigSent' = <<>>
            /\ buffered' = <<>>
    /\ UNCHANGED sessVars

\* lines 41-48: execute(e) up to the await of session.query; the preview,
\* when there is one to send, was accepted by the transport
ExecStart(e) ==
    /\ tpc # "querying"
    /\ ev' = e
    /\ tpc' = "querying"
    /\ trigEph' = "live"
    /\ ephResume' = [ephResume EXCEPT !["trigger"] = create_background_session]
    /\ reply' = NoText
    /\ tResult' = NoResult
    /\ IF e.preview # NoText /\ e.notify
       THEN trigSent' = <<[to |-> OwnerId, text |-> e.preview]>>
       ELSE trigSent' = <<>>
    /\ buffered' = <<>>
    /\ UNCHANGED sessVars

\* line 45 raising: the transport rejects the preview
ExecPreviewFails(e) ==
    /\ tpc # "querying"
    /\ e.preview # NoText /\ e.notify
    /\ ev' = e
    /\ tpc' = "raised"
    /\ trigEph' = "none"
    /\ reply' = NoText
    /\ tResult' = NoResult
    /\ trigSent' = <<>>
    /\ buffered' = <<>>
    /\ UNCHANGED sessVars
    /\ UNCHANGED ephResume

\* lines 50-79 when session.query returns content and nothing raises
ExecQueryReturns(content) ==
    /\ tpc = "querying"
    /\ trigEph' = EphAfterQuery("returned")
    /\ reply' = content
    /\ tpc' = "returned"
    /\ LET c == Strip(content) IN
       IF IsSilent(ev, c) \/ Prepared(ev, c) = NoText
       THEN /\ tResult' = NoResult
            /\ UNCHANGED <<trigSent, buffered, sessVars>>
       ELSE /\ tResult' = SomeResult(Prepared(ev, c))
            /\ IF ev.notify
               THEN send_to_owner(Prepared(ev, c), TRUE)
               ELSE UNCHANGED <<trigSent, buffered, sessVars>>
    /\ UNCHANGED ev
    /\ UNCHANGED ephResume

\* the rejection of the result caught inside execute()
ExecDeliveryFails_swallowed(content) ==
    /\ tpc = "querying"
    /\ LET c == Strip(content) IN
       /\ ~IsSilent(ev, c)
       /\ Prepared(ev, c) # NoText
       /\ tResult' = SomeResult(Prepared(ev, c))
    /\ ev.notify
    /\ trigEph' = EphAfterQuery("returned")
    /\ reply' = content
    /\ tpc' = "returned"
    /\ UNCHANGED <<ev, trigSent, buffered, sessVars>>
    /\ UNCHANGED ephResume

\* lines 76-77 raising: the transport rejects the result (line 89), so
\* execute() raises and nothing is buffered
ExecDeliveryFails(content) ==
    /\ tpc = "querying"
    /\ LET c == Strip(content) IN
       /\ ~IsSilent(ev, c)
       /\ Prepared(ev, c) # NoText
    /\ ev.notify
    /\ trigEph' = EphAfterQuery("returned")
    /\ reply' = content
    /\ tpc' = "raised"
    /\ tResult' = NoResult
    /\ UNCHANGED <<ev, trigSent, buffered, sessVars>>
    /\ UNCHANGED ephResume

\* lines 49-52 when session.query raises: finally, then the exception
\* leaves execute()
ExecQueryRaises ==
    /\ tpc = "querying"
    /\ trigEph' = EphAfterQuery("raised")
    /\ tpc' = "raised"
    /\ UNCHANGED <<ev, reply, tResult, trigSent, buffered, sessVars>>
    /\ UNCHANGED ephResume

\* lines 49-52 when the task is cancelled while session.query is awaited
ExecCancelled ==
    /\ tpc = "querying"
    /\ trigEph' = EphAfterQuery("cancelled")
    /\ tpc' = "cancelled"
    /\ UNCHANGED <<ev, reply, tResult, trigSent, buffered, sessVars>>
    /\ UNCHANGED ephResume

TrigInit ==
    /\ tpc = "idle"
    /\ ephResume = [k \in EphOwners |-> NoToken]
    /\ ev = NoEvent
    /\ trigEph = "none"
    /\ reply = NoText
    /\ tResult = NoResult
    /\ trigSent = <<>>
    /\ buffered = <<>>

Execute == \E e \in Events : ExecStart(e) /\ UNCHANGED notTrig
PreviewFails == \E e \in Events : ExecPreviewFails(e) /\ UNCHANGED notTrig
QueryReturns ==
    \E content \in Replies : ExecQueryReturns(content) /\ UNCHANGED notTrig
DeliveryFails ==
    \E content \in Replies : ExecDeliveryFails(content) /\ UNCHANGED notTrig
QueryRaises == ExecQueryRaises /\ UNCHANGED notTrig
Cancelled == ExecCancelled /\ UNCHANGED notTrig

\* session.query answering a backend failure as UserSession.query does
\* (session_manager.py lines 125-127): the error string is the content
QueryFails ==
    \E e \in ErrorMessages :
        ExecQueryReturns(ErrorReply(e)) /\ UNCHANGED notTrig

TrigNext ==
    \/ Execute
    \/ PreviewFails
    \/ QueryReturns
    \/ DeliveryFails
    \/ QueryRaises
    \/ Cancelled


\* ------------------------------------------------------ RecipientGate ---
NoName == "none"       \* username None
Usernames == {NoName, "u"}
Unknown == [known |-> FALSE, whitelisted |-> FALSE, banned |-> FALSE,
            username |-> NoName]
UserRecords ==
    {Unknown} \cup [known : {TRUE}, whitelisted : BOOLEAN, banned : BOOLEAN,
                    username : Usernames]

\* the entities validate_recipient is given: telethon User, Channel, Chat,
\* or anything else with or without an id
Entities ==
    [kind : {"User", "Channel", "Chat", "Other"}, id : Recipients,
     username : Usernames]

NoGateCall == [fn |-> "none", kind |-> "none", id |-> 0, allowed |-> FALSE,
               reason |-> "none", wasBanned |-> FALSE]

\* settings.is_owner(id)
is_owner(id) == id = OwnerId

\* UsersRepository.is_user_whitelisted(id)
is_user_whitelisted(id) == users[id].known /\ users[id].whitelisted

\* UsersRepository.upsert_user(telegram_id, username) for a user the
\* repository does not hold: the repository with the new record
upsert_user(id, username) ==
    [users EXCEPT ![id] = [Unknown EXCEPT !.known = TRUE,
                                          !.username = username]]

\* _auto_whitelist(id, username): the repository after it (lines 19-24)
_auto_whitelist(id, username) ==
    LET afterUpsert ==
            IF ~users[id].known THEN upsert_user(id, username) ELSE users
    IN  IF ~(users[id].known /\ users[id].whitelisted)
        THEN [afterUpsert EXCEPT ![id].whitelisted = TRUE]
        ELSE afterUpsert

\* lines 43-45 and 63-65: the repository after the whitelist lookup
AfterLookup(id, username) ==
    IF ~is_user_whitelisted(id) THEN _auto_whitelist(id, username) ELSE users

\* validate_recipient with the ban flag read before anything else
validate_recipient_answer_ban_first(entity) ==
    IF entity.kind = "User" /\ users[entity.id].banned THEN <<FALSE, "banned">>
    ELSE IF entity.kind = "User" /\ is_owner(entity.id) THEN <<TRUE, "owner">>
    ELSE IF entity.kind \in {"Channel", "Chat"} THEN <<TRUE, "channel/group">>
    ELSE IF entity.kind = "User" THEN <<TRUE, "whitelisted">>
    ELSE <<TRUE, "unknown entity type (allowed)">>

\* validate_recipient(entity): (allowed, reason)
validate_recipient_answer(entity) ==
    IF entity.kind = "User" /\ is_owner(entity.id) THEN <<TRUE, "owner">>
    ELSE IF entity.kind \in {"Channel", "Chat"} THEN <<TRUE, "channel/group">>
    ELSE IF entity.kind = "User" THEN <<TRUE, "whitelisted">>
    ELSE <<TRUE, "unknown entity type (allowed)">>

\* lines 36-45: the repository after validate_recipient(entity)
validate_recipient_users(entity) ==
    IF entity.kind = "User" /\ ~is_owner(entity.id)
    THEN AfterLookup(entity.id, entity.username) ELSE users

validate_recipient(entity) ==
    /\ users' = validate_recipient_users(entity)
    /\ gateLast' = [fn |-> "validate_recipient", kind |-> entity.kind,
                    id |-> entity.id,
                    allowed |-> validate_recipient_answer(entity)[1],
                    reason |-> validate_recipient_answer(entity)[2],
                    wasBanned |-> (entity.kind = "User"
                                   /\ users[entity.id].banned)]
    /\ gateAllowed' = IF entity.kind = "User"
                               /\ validate_recipient_answer(entity)[1]
                      THEN gateAllowed \cup {entity.id} ELSE gateAllowed
    /\ UNCHANGED <<sessVars, trigVars, hbVars, ephResume, updVars>>

\* validate_recipient_by_id(id): (allowed, reason)
validate_recipient_by_id_answer(id) ==
    IF is_owner(id) THEN <<TRUE, "owner">> ELSE <<TRUE, "whitelisted">>

\* lines 60-65: the repository after validate_recipient_by_id(id); line
\* 65 passes no username
validate_recipient_by_id_users_untouched(id) == users
validate_recipient_by_id_users(id) ==
    IF ~is_owner(id) THEN AfterLookup(id, NoName) ELSE users

validate_recipient_by_id(id) ==
    /\ users' = validate_recipient_by_id_users(id)
    /\ gateLast' = [fn |-> "validate_recipient_by_id", kind |-> "User",
                    id |-> id,
                    allowed |-> validate_recipient_by_id_answer(id)[1],
                    reason |-> validate_recipient_by_id_answer(id)[2],
                    wasBanned |-> users[id].banned]
    /\ gateAllowed' = IF validate_recipient_by_id_answer(id)[1]
                      THEN gateAllowed \cup {id} ELSE gateAllowed
    /\ UNCHANGED <<sessVars, trigVars, hbVars, ephResume, updVars>>

\* users/tools.py ban_user and ban_violator: a known user that is not
\* banned yet gets the banned flag
ban_user(id) ==
    /\ users[id].known /\ ~users[id].banned
    /\ users' = [users EXCEPT ![id].banned = TRUE]
    /\ UNCHANGED <<gateLast, gateAllowed, sessVars, trigVars, hbVars, ephResume, updVars>>

\* users/tools.py unban_user: the flag is cleared and the user's session
\* is reset
unban_user(id) ==
    /\ users[id].known /\ users[id].banned
    /\ users' = [users EXCEPT ![id].banned = FALSE]
    /\ reset_session(id)
    /\ UNCHANGED <<gateLast, gateAllowed, trigVars, hbVars, ephResume, updVars>>

GateInit ==
    /\ users \in [Recipients -> UserRecords]
    /\ gateLast = NoGateCall
    /\ gateAllowed = {}

Validate == \E entity \in Entities : validate_recipient(entity)
ValidateById == \E id \in Recipients : validate_recipient_by_id(id)
Ban == \E id \in Recipients : ban_user(id)
Unban == \E id \in Recipients : unban_user(id)

GateNext ==
    \/ Validate
    \/ ValidateById
    \/ Ban
    \/ Unban

\* ---------------------------------------------------- HeartbeatRunner ---
HEARTBEAT_OK_MARKER == <<"O", "K">>
Bulb == <<"*">>        \* the "\U0001f4a1" of line 120
Shown == 3             \* tasks[:3], line 160

IdleCheck == [pc |-> "idle", eph |-> "none"]
NoReminder == [st |-> "none", text |-> <<>>]
NoReminders == [a \in Assignees |-> NoReminder]
NoBriefing == [reply |-> NoText, sent |-> NoResult]

\* lines 159-166: the reminder for an assignee with n overdue tasks, as its
\* lines: the header, an empty line, one line per task shown and, beyond
\* Shown tasks, an empty line and the line with the number left
RECURSIVE TaskLines_all(_, _)
TaskLines_all(k, n) ==
    IF k > n THEN <<>>
    ELSE <<[line |-> "task", n |-> k]>> \o TaskLines_all(k + 1, n)

RECURSIVE TaskLines(_, _)
TaskLines(k, n) ==
    IF k > n \/ k > Shown THEN <<>>
    ELSE <<[line |-> "task", n |-> k]>> \o TaskLines(k + 1, n)

Reminder(n) ==
    <<[line |-> "header", n |-> 0], [line |-> "empty", n |-> 0]>>
      \o TaskLines(1, n)
      \o (IF n > Shown
          THEN <<[line |-> "empty", n |-> 0], [line |-> "more", n |-> n - Shown]>>
          ELSE <<>>)

\* lines 141-153: the assignees of by_user that still get a reminder in run w
Pending(w) ==
    {a \in Assignees : a # OwnerId /\ overdue[a] > 0 /\ remind[w][a].st = "none"}

\* lines 105-109: try / finally around session.query, whatever its outcome
HbEphAfterQuery(outcome) == EphAfterQuery(outcome)

\* lines 110-122: the message _check sends for a reply; NoText when the
\* reply is silent or nothing is left of it
Briefing_untruncated(content) ==
    LET c == Strip(content) IN
    IF Contains(c, HEARTBEAT_OK_MARKER) THEN NoText
    ELSE IF Strip(Remove(c, HEARTBEAT_OK_MARKER)) = NoText THEN NoText
    ELSE Bulb \o <<"\n">> \o Strip(Remove(c, HEARTBEAT_OK_MARKER))
Briefing(content) ==
    LET c == Strip(content) IN
    IF Contains(c, HEARTBEAT_OK_MARKER) THEN NoText
    ELSE IF Strip(Remove(c, HEARTBEAT_OK_MARKER)) = NoText THEN NoText
    ELSE Truncated(Bulb \o <<"\n">> \o Strip(Remove(c, HEARTBEAT_OK_MARKER)))

\* a _check run begins (line 97): nothing sent yet
BeginCheck(w) ==
    /\ chk' = [chk EXCEPT ![w] = [pc |-> "reminders", eph |-> "none"]]
    /\ remind' = [remind EXCEPT ![w] = NoReminders]
    /\ hbLast' = [hbLast EXCEPT ![w] = NoBriefing]

\* a _check run ends, normally or with an exception: the loop task goes to
\* the sleep of line 93 (line 90 catches the exception)
EndCheck(w) ==
    IF w = "loop" THEN loopPc' = "sleep" ELSE loopPc' = loopPc

\* start() with a loop that checks before its first sleep
start_checks_at_once ==
    /\ stopPc = "idle"
    /\ IF running
       THEN UNCHANGED <<running, loopPc, phase, chk, remind, hbLast>>
       ELSE /\ running' = TRUE
            /\ loopPc' = "check"
            /\ phase' = "fresh"
            /\ BeginCheck("loop")
    /\ UNCHANGED <<overdue, cancelReq, stopPc>>
    /\ UNCHANGED <<sessVars, trigVars, gateVars, ephResume, updVars>>

\* start(), lines 62-69
start ==
    /\ stopPc = "idle"
    /\ IF running
       THEN UNCHANGED <<running, loopPc, phase>>
       ELSE /\ running' = TRUE
            /\ loopPc' = "first_sleep"
            /\ phase' = "fresh"
    /\ UNCHANGED <<overdue, cancelReq, stopPc, chk, remind, hbLast>>
    /\ UNCHANGED <<sessVars, trigVars, gateVars, ephResume, updVars>>

\* stop() that cancels the task and returns without awaiting it
stop_no_await ==
    /\ stopPc = "idle"
    /\ running' = FALSE
    /\ IF loopPc \in {"none", "ended"}
       THEN UNCHANGED cancelReq
       ELSE cancelReq' = TRUE
    /\ phase' = IF phase = "fresh" THEN "early" ELSE phase
    /\ UNCHANGED <<overdue, loopPc, stopPc, chk, remind, hbLast>>
    /\ UNCHANGED <<sessVars, trigVars, gateVars, ephResume, updVars>>

\* stop(), lines 73-77: the flag is cleared and the task, if there is one,
\* is cancelled and awaited
stop ==
    /\ stopPc = "idle"
    /\ running' = FALSE
    /\ IF loopPc \in {"none", "ended"}
       THEN UNCHANGED <<cancelReq, stopPc>>
       ELSE cancelReq' = TRUE /\ stopPc' = "awaiting"
    /\ phase' = IF phase = "fresh" THEN "early" ELSE phase
    /\ UNCHANGED <<overdue, loopPc, chk, remind, hbLast>>
    /\ UNCHANGED <<sessVars, trigVars, gateVars, ephResume, updVars>>

\* stop(), lines 77-80: the awaited task has ended
StopReturns ==
    /\ stopPc = "awaiting"
    /\ loopPc = "ended"
    /\ stopPc' = "idle"
    /\ UNCHANGED <<overdue, running, loopPc, cancelReq, chk, remind, hbLast, phase>>
    /\ UNCHANGED <<sessVars, trigVars, gateVars, ephResume, updVars>>

\* the CancelledError reaches the loop task at the await it is suspended in:
\* a sleep (lines 85, 93), or an await of _check, where the finally of line
\* 108 destroys a live session
CancelDelivered ==
    /\ cancelReq
    /\ loopPc \in {"first_sleep", "sleep", "check"}
    /\ cancelReq' = FALSE
    /\ loopPc' = "ended"
    /\ IF loopPc = "check"
       THEN chk' = [chk EXCEPT !["loop"] =
                     [pc |-> "cancelled",
                      eph |-> IF chk["loop"].eph = "live"
                              THEN HbEphAfterQuery("cancelled")
                              ELSE chk["loop"].eph]]
       ELSE UNCHANGED chk
    /\ UNCHANGED <<overdue, running, stopPc, remind, hbLast, phase>>
    /\ UNCHANGED <<sessVars, trigVars, gateVars, ephResume, updVars>>

\* a timer that runs at a fixed rate, whether or not the check has ended
TimerExpires_fixed_rate ==
    /\ loopPc \in {"first_sleep", "sleep", "check"}
    /\ ~cancelReq
    /\ running
    /\ loopPc' = "check"
    /\ BeginCheck("loop")
    /\ phase' = IF phase = "fresh" THEN "checked" ELSE "rechecked"
    /\ UNCHANGED <<overdue, running, cancelReq, stopPc>>
    /\ UNCHANGED <<sessVars, trigVars, gateVars, ephResume, updVars>>

\* lines 85-89 and 93: a sleep of the loop task is over; while _running the
\* next _check begins
TimerExpires ==
    /\ loopPc \in {"first_sleep", "sleep"}
    /\ ~cancelReq
    /\ IF running
       THEN /\ loopPc' = "check"
            /\ BeginCheck("loop")
            /\ phase' = IF phase = "fresh" THEN "checked" ELSE "rechecked"
       ELSE /\ loopPc' = "ended"
            /\ UNCHANGED <<chk, remind, hbLast, phase>>
    /\ UNCHANGED <<overdue, running, cancelReq, stopPc>>
    /\ UNCHANGED <<sessVars, trigVars, gateVars, ephResume, updVars>>

\* trigger_now(), lines 226-228
trigger_now ==
    /\ chk["manual"].pc \notin {"reminders", "querying"}
    /\ BeginCheck("manual")
    /\ UNCHANGED <<overdue, running, loopPc, cancelReq, stopPc, phase>>
    /\ UNCHANGED <<sessVars, trigVars, gateVars, ephResume, updVars>>

\* a run that the pending cancellation has not reached yet can take a step
CanStep(w) == w = "loop" => (loopPc = "check" /\ ~cancelReq)

\* the send of line 169 without its try / except
RemindOne_unguarded(w, a, ok) ==
    /\ chk[w].pc = "reminders"
    /\ CanStep(w)
    /\ a \in Pending(w)
    /\ remind' = [remind EXCEPT ![w][a] =
                    [st |-> IF ok THEN "sent" ELSE "failed",
                     text |-> Reminder(overdue[a])]]
    /\ IF ok
       THEN UNCHANGED <<chk, loopPc>>
       ELSE chk' = [chk EXCEPT ![w].pc = "raised"] /\ EndCheck(w)
    /\ UNCHANGED <<overdue, running, cancelReq, stopPc, hbLast, phase>>
    /\ UNCHANGED <<sessVars, trigVars, gateVars, ephResume, updVars>>

\* lines 155-172: the reminder for assignee a is built and sent; the
\* transport accepts it (ok) or raises, which line 171 catches
RemindOne(w, a, ok) ==
    /\ chk[w].pc = "reminders"
    /\ CanStep(w)
    /\ a \in Pending(w)
    /\ remind' = [remind EXCEPT ![w][a] =
                    [st |-> IF ok THEN "sent" ELSE "failed",
                     text |-> Reminder(overdue[a])]]
    /\ UNCHANGED <<overdue, running, loopPc, cancelReq, stopPc, chk, hbLast, phase>>
    /\ UNCHANGED <<sessVars, trigVars, gateVars, ephResume, updVars>>

\* _check raising in a loop without the except of line 90
RepositoryRaises_uncaught(w) ==
    /\ chk[w].pc = "reminders"
    /\ CanStep(w)
    /\ chk' = [chk EXCEPT ![w].pc = "raised"]
    /\ loopPc' = IF w = "loop" THEN "ended" ELSE loopPc
    /\ UNCHANGED <<overdue, running, cancelReq, stopPc, remind, hbLast, phase>>
    /\ UNCHANGED <<sessVars, trigVars, gateVars, ephResume, updVars>>

\* lines 100-103 raising: a repository call of _check_user_tasks (list_tasks,
\* get_user) or of _build_heartbeat_prompt raises, and so does _check
RepositoryRaises(w) ==
    /\ chk[w].pc = "reminders"
    /\ CanStep(w)
    /\ chk' = [chk EXCEPT ![w].pc = "raised"]
    /\ EndCheck(w)
    /\ UNCHANGED <<overdue, running, cancelReq, stopPc, remind, hbLast, phase>>
    /\ UNCHANGED <<sessVars, trigVars, gateVars, ephResume, updVars>>

\* lines 103-107: the reminders are through, the prompt is built, the
\* heartbeat session is created and its query is awaited
BriefingStart(w) ==
    /\ chk[w].pc = "reminders"
    /\ CanStep(w)
    /\ Pending(w) = {}
    /\ chk' = [chk EXCEPT ![w] = [pc |-> "querying", eph |-> "live"]]
    /\ ephResume' = [ephResume EXCEPT ![w] = create_heartbeat_session]
    /\ UNCHANGED <<overdue, running, loopPc, cancelReq, stopPc, remind, hbLast, phase>>
    /\ UNCHANGED <<sessVars, trigVars, gateVars, updVars>>

\* _check delivering its briefing through the owner session's buffer
BriefingReturns_buffering(w, content) ==
    /\ chk[w].pc = "querying"
    /\ CanStep(w)
    /\ chk' = [chk EXCEPT ![w] = [pc |-> "done",
                                  eph |-> HbEphAfterQuery("returned")]]
    /\ hbLast' = [hbLast EXCEPT ![w] =
                    [reply |-> content,
                     sent |-> IF Briefing(content) = NoText THEN NoResult
                              ELSE SomeResult(Briefing(content))]]
    /\ buffered' = IF Briefing(content) = NoText THEN buffered
                   ELSE Append(buffered, BufferRecord(Briefing(content)))
    /\ EndCheck(w)
    /\ UNCHANGED <<overdue, running, cancelReq, stopPc, remind, phase>>
    /\ UNCHANGED <<tpc, ev, trigEph, reply, tResult, trigSent>>
    /\ UNCHANGED <<sessVars, gateVars, ephResume, updVars>>

\* lines 107-125 when session.query returns content and nothing raises
BriefingReturns(w, content) ==
    /\ chk[w].pc = "querying"
    /\ CanStep(w)
    /\ chk' = [chk EXCEPT ![w] = [pc |-> "done",
                                  eph |-> HbEphAfterQuery("returned")]]
    /\ hbLast' = [hbLast EXCEPT ![w] =
                    [reply |-> content,
                     sent |-> IF Briefing(content) = NoText THEN NoResult
                              ELSE SomeResult(Briefing(content))]]
    /\ EndCheck(w)
    /\ UNCHANGED <<overdue, running, cancelReq, stopPc, remind, phase>>
    /\ UNCHANGED <<sessVars, trigVars, gateVars, ephResume, updVars>>

\* line 124 raising: the transport rejects the briefing
BriefingSendFails(w, content) ==
    /\ chk[w].pc = "querying"
    /\ CanStep(w)
    /\ Briefing(content) # NoText
    /\ chk' = [chk EXCEPT ![w] = [pc |-> "raised",
                                  eph |-> HbEphAfterQuery("returned")]]
    /\ hbLast' = [hbLast EXCEPT ![w] = [reply |-> content, sent |-> NoResult]]
    /\ EndCheck(w)
    /\ UNCHANGED <<overdue, running, cancelReq, stopPc, remind, phase>>
    /\ UNCHANGED <<sessVars, trigVars, gateVars, ephResume, updVars>>

\* lines 106-109 when session.query raises
BriefingQueryRaises(w) ==
    /\ chk[w].pc = "querying"
    /\ CanStep(w)
    /\ chk' = [chk EXCEPT ![w] = [pc |-> "raised",
                                  eph |-> HbEphAfterQuery("raised")]]
    /\ EndCheck(w)
    /\ UNCHANGED <<overdue, running, cancelReq, stopPc, remind, hbLast, phase>>
    /\ UNCHANGED <<sessVars, trigVars, gateVars, ephResume, updVars>>

HbInitWith(tasks) ==
    /\ overdue = tasks
    /\ running = FALSE
    /\ loopPc = "none"
    /\ cancelReq = FALSE
    /\ stopPc = "idle"
    /\ chk = [w \in Runners |-> IdleCheck]
    /\ remind = [w \in Runners |-> NoReminders]
    /\ hbLast = [w \in Runners |-> NoBriefing]
    /\ phase = "none"

NoTasks == [a \in Assignees |-> 0]
HbInit == \E tasks \in [Assignees -> 0..MaxOverdue] : HbInitWith(tasks)
HbInitNoTasks == HbInitWith(NoTasks)

Remind(w) == \E a \in Assignees, ok \in BOOLEAN : RemindOne(w, a, ok)
BriefingDone(w) == \E content \in Replies : BriefingReturns(w, content)
BriefingUndelivered(w) == \E content \in Replies : BriefingSendFails(w, content)

\* the steps of one _check run, without its reminders
CheckSteps(w) ==
    \/ RepositoryRaises(w)
    \/ BriefingStart(w)
    \/ BriefingDone(w)
    \/ BriefingUndelivered(w)
    \/ BriefingQueryRaises(w)

\* the loop task and its owner's start() and stop()
LoopSteps ==
    \/ start
    \/ stop
    \/ StopReturns
    \/ CancelDelivered
    \/ TimerExpires

HbNext ==
    \/ LoopSteps
    \/ CheckSteps("loop")
    \/ Remind("loop")

HbNowNext ==
    \/ LoopSteps
    \/ CheckSteps("loop")
    \/ trigger_now
    \/ CheckSteps("manual")

\* the same steps with the replies drawn from ShortReplies
ShortQueryReturns ==
    \E content \in ShortReplies :
        ExecQueryReturns(content) /\ UNCHANGED notTrig
ShortDeliveryFails ==
    \E content \in ShortReplies :
        ExecDeliveryFails(content) /\ UNCHANGED notTrig
ShortBriefingDone == \E content \in ShortReplies : BriefingReturns("loop", content)
ShortBriefingUndelivered ==
    \E content \in ShortReplies : BriefingSendFails("loop", content)

BriefingFails ==
    \E e \in ErrorMessages : BriefingReturns("loop", ErrorReply(e))

BackgroundNext ==
    \/ Execute
    \/ PreviewFails
    \/ ShortQueryReturns
    \/ ShortDeliveryFails
    \/ QueryRaises
    \/ Cancelled
    \/ LoopSteps
    \/ RepositoryRaises("loop")
    \/ BriefingStart("loop")
    \/ ShortBriefingDone
    \/ ShortBriefingUndelivered
    \/ BriefingQueryRaises("loop")

\* ------------------------------------------------------------ Updater ---
\* what the updater service answers to /check: an error, no commits, or
\* commits
CheckAnswers == {"error", "current", "available"}

\* handle(), lines 23-26: a pending update is confirmed
handle_confirm(h) ==
    /\ updPc[h] = "idle"
    /\ _pending
    /\ _pending' = FALSE
    /\ updTriggered' = updTriggered + 1
    /\ updLast' = "triggered"
    /\ UNCHANGED <<updPc, updFound>>
    /\ UNCHANGED notUpd

\* handle(), line 28: nothing is pending and the check is awaited
handle_check(h) ==
    /\ updPc[h] = "idle"
    /\ ~_pending
    /\ updFound < MaxFound
    /\ updPc' = [updPc EXCEPT ![h] = "checking"]
    /\ updLast' = "checking"
    /\ UNCHANGED <<_pending, updTriggered, updFound>>
    /\ UNCHANGED notUpd

\* handle(), lines 30-42: the check has answered
check_returns_always_pending(h, info) ==
    /\ updPc[h] = "checking"
    /\ updPc' = [updPc EXCEPT ![h] = "idle"]
    /\ updLast' = info
    /\ _pending' = TRUE
    /\ updFound' = IF info = "available" THEN updFound + 1 ELSE updFound
    /\ UNCHANGED updTriggered
    /\ UNCHANGED notUpd

check_returns(h, info) ==
    /\ updPc[h] = "checking"
    /\ updPc' = [updPc EXCEPT ![h] = "idle"]
    /\ updLast' = info
    /\ IF info = "available"
       THEN _pending' = TRUE /\ updFound' = updFound + 1
       ELSE UNCHANGED <<_pending, updFound>>
    /\ UNCHANGED updTriggered
    /\ UNCHANGED notUpd

\* handle(), line 28 raising: the request of _check fails
check_raises(h) ==
    /\ updPc[h] = "checking"
    /\ updPc' = [updPc EXCEPT ![h] = "idle"]
    /\ updLast' = "raised"
    /\ UNCHANGED <<_pending, updTriggered, updFound>>
    /\ UNCHANGED notUpd

UpdInit ==
    /\ _pending = FALSE
    /\ updPc = [h \in Handles |-> "idle"]
    /\ updTriggered = 0
    /\ updFound = 0
    /\ updLast = "none"

HandleConfirm == \E h \in Handles : handle_confirm(h)
HandleCheck == \E h \in Handles : handle_check(h)
CheckReturns == \E h \in Handles, info \in CheckAnswers : check_returns(h, info)
CheckRaises == \E h \in Handles : check_raises(h)

UpdNext ==
    \/ HandleConfirm
    \/ HandleCheck
    \/ CheckReturns
    \/ CheckRaises

\* the heartbeat loop with its failures, no overdue tasks
HbLiveNext ==
    \/ LoopSteps
    \/ RepositoryRaises("loop")
    \/ BriefingStart("loop")
    \/ ShortBriefingDone
    \/ ShortBriefingUndelivered
    \/ BriefingQueryRaises("loop")

\* ----------------------------------------------------- specifications ---
NoGate == GateInit /\ users = [r \in Recipients |-> Unknown]
NoFiles == SessInit /\ sessionFile = [r \in Recipients |-> NoToken]

\* the state after construction, per specification
InitSession == SessInit /\ TrigInit /\ NoGate /\ HbInitNoTasks /\ UpdInit
InitGate == SessInit /\ TrigInit /\ GateInit /\ HbInitNoTasks /\ UpdInit
InitHeartbeat == NoFiles /\ TrigInit /\ NoGate /\ HbInit /\ UpdInit
InitBackground == NoFiles /\ TrigInit /\ NoGate /\ HbInitNoTasks /\ UpdInit

SpecSession == InitSession /\ [][SessNext]_vars

SpecTrigger == InitSession /\ [][TrigNext]_vars

SpecGate == InitGate /\ [][GateNext]_vars

\* the heartbeat loop over a task repository
SpecHeartbeat == InitHeartbeat /\ [][HbNext]_vars

\* the heartbeat loop and trigger_now, no overdue tasks
SpecHeartbeatNow == InitBackground /\ [][HbNowNext]_vars

\* trigger executions and the heartbeat loop side by side, no overdue tasks
SpecBackground == InitBackground /\ [][BackgroundNext]_vars

\* the updater alone
SpecUpdater == InitBackground /\ [][UpdNext]_vars

\* the heartbeat loop whose timer, once its sleep has begun, expires
SpecHeartbeatLive ==
    InitBackground /\ [][HbLiveNext]_vars /\ WF_vars(TimerExpires)

\* the same with backend failures answered as error strings
FailureNext ==
    \/ BackgroundNext
    \/ QueryFails
    \/ BriefingFails

SpecFailure == InitBackground /\ [][FailureNext]_vars

\* the same over any content of the owner's session file
OwnerFile == SessInit /\ \A r \in Recipients \ {OwnerId} : sessionFile[r] = NoToken
InitEphemeral == OwnerFile /\ TrigInit /\ NoGate /\ HbInitNoTasks /\ UpdInit
SpecEphemeral == InitEphemeral /\ [][BackgroundNext]_vars

\* -------------------------------------------------- claims: the gate ---
\* C8 (as claimed): no RecipientGate call answers allowed for a user that
\* is not the owner and whose banned flag is set.
C8_BannedNeverAllowed ==
    (gateLast.fn # "none" /\ gateLast.wasBanned /\ ~is_owner(gateLast.id))
    => ~gateLast.allowed


\* ------------------------------------------------ claims: sessions ---
\* C1 (as claimed): when a query() call returns its reply, its
\* ResultMessage carried a token and its session is still the recipient's
\* cached session (no reset since), the session object and the session file
\* both hold that token at the return.
C1_TokenAfterSuccessfulQuery ==
    [][\A c \in Calls :
        (/\ call[c].pc = "closing" /\ call'[c].pc = "idle"
         /\ lastRet' = "reply"
         /\ call[c].evTok # NoToken
         /\ sessions[instRid[call[c].inst]] = call[c].inst)
        => /\ instTok'[call[c].inst] = call[c].evTok
           /\ sessionFile'[instRid[call[c].inst]] = call[c].evTok]_vars

\* C2 (as claimed): when a query() call ends in the except branch it returns
\* the error string and the session object and the session file hold the
\* tokens they held when the call began.
C2_TokenUnchangedOnFailure ==
    [][\A c \in Calls :
        (call[c].pc \in {"open", "closing"} /\ call'[c].pc = "idle"
         /\ lastRet' = "error")
        => /\ instTok'[call[c].inst] = call[c].resume
           /\ sessionFile'[instRid[call[c].inst]] = call[c].fileBefore]_vars

\* C3: a get_session(r) that follows a get_session(r) with no
\* reset_session(r) / reset_all in between returns the same object,
\* whatever happens to other recipients' sessions.
C3_SameInstance ==
    [][\A r \in Recipients :
        (lastGet[r] # NoInst /\ lastGet'[r] # NoInst)
        => lastGet'[r] = lastGet[r]]_vars

\* C3 witness: r was fetched twice and another recipient's session was
\* constructed after r's.
C3_Witness ==
    \E r \in Recipients, q \in Recipients :
        /\ q # r
        /\ gotTwice[r]
        /\ sessions[r] = lastGet[r]
        /\ sessions[q] > sessions[r]

\* C4 (as claimed): a get_session(r) that directly follows reset_session(r)
\* returns an object without a resume token.
C4_FreshAfterReset ==
    [][\A r \in Recipients :
        (afterReset = r /\ lastGet'[r] # NoInst)
        => instTok'[lastGet'[r]] = NoToken]_vars

\* ------------------------------------------------ claims: triggers ---
PreviewSent(e) ==
    IF e.preview # NoText /\ e.notify
    THEN <<[to |-> OwnerId, text |-> e.preview]>> ELSE <<>>

\* C5 (as claimed): when the reply contains the event's silence marker,
\* execute() returns nothing and the transport got no message at all.
C5_SilentSendsNothing ==
    (tpc = "returned" /\ ev.marker # NoText /\ Contains(reply, ev.marker))
    => (tResult = NoResult /\ trigSent = <<>>)

\* C5 (amended): when the stripped reply contains the event's silence
\* marker, execute() returns nothing, appends nothing to the owner session
\* and sends nothing after the query: the transport got the preview (when
\* the event has one and asks for notification) and no other message.
C5_SilentSendsOnlyPreview ==
    (tpc = "returned" /\ ev.marker # NoText
     /\ Contains(Strip(reply), ev.marker))
    => (tResult = NoResult /\ buffered = <<>> /\ trigSent = PreviewSent(ev))

\* C5 witness: a silent run of an event with a preview and notification
C5_Witness ==
    /\ tpc = "returned"
    /\ ev.marker # NoText /\ Contains(Strip(reply), ev.marker)
    /\ ev.preview # NoText /\ ev.notify
    /\ Len(trigSent) = 1

\* the message execute() delivered after the query, if any
Delivered ==
    IF Len(trigSent) > Len(PreviewSent(ev))
    THEN SomeResult(trigSent[Len(trigSent)].text) ELSE NoResult

\* C6 (as claimed): when the reply does not contain the silence marker,
\* execute() delivers and returns prefix + stripped reply, cut to the
\* maximum length with an ellipsis appended once it is longer.
C6_PrefixPlusReply ==
    (tpc = "returned" /\ ~(ev.marker # NoText /\ Contains(reply, ev.marker)))
    => LET full == ev.prefix \o Strip(reply)
           want == IF Len(full) > MAX_MESSAGE_LENGTH
                   THEN SubSeq(full, 1, MAX_MESSAGE_LENGTH) \o Ellipsis
                   ELSE full
       IN tResult = SomeResult(want) /\ Delivered = SomeResult(want)

\* C6 (amended): when the stripped reply does not contain the silence
\* marker, an empty stripped reply makes execute() return and deliver
\* nothing; otherwise execute() returns the stripped reply, preceded by the
\* prefix and a newline when the event has a prefix, cut to the maximum
\* length with "..." appended once it is longer, and it delivers exactly
\* that text, and only when the event asks for notification.
C6_PrefixNewlineReply ==
    (tpc = "returned" /\ ~(ev.marker # NoText /\ Contains(Strip(reply), ev.marker)))
    => LET body == Strip(reply)
           full == IF ev.prefix = NoText THEN body
                   ELSE ev.prefix \o <<"\n">> \o body
           want == IF Len(full) > MAX_MESSAGE_LENGTH
                   THEN [i \in 1..(MAX_MESSAGE_LENGTH + 3) |->
                           IF i <= MAX_MESSAGE_LENGTH THEN full[i] ELSE "."]
                   ELSE full
       IN IF body = NoText
          THEN tResult = NoResult /\ Delivered = NoResult
          ELSE /\ tResult = SomeResult(want)
               /\ Delivered = (IF ev.notify THEN SomeResult(want) ELSE NoResult)

\* C6 witness: a delivered result that was cut
C6_Witness ==
    /\ tpc = "returned"
    /\ ~(ev.marker # NoText /\ Contains(Strip(reply), ev.marker))
    /\ ev.prefix # NoText /\ ev.notify
    /\ Len(ev.prefix) + 1 + Len(Strip(reply)) > MAX_MESSAGE_LENGTH
    /\ Delivered = tResult /\ tResult.some

\* C7 (as claimed): every text execute() or the heartbeat briefing passed
\* to the transport is at most MAX_MESSAGE_LENGTH long.
C7_SentWithinMax ==
    /\ \A i \in 1..Len(trigSent) : Len(trigSent[i].text) <= MAX_MESSAGE_LENGTH
    /\ \A w \in Runners :
         hbLast[w].sent.some => Len(hbLast[w].sent.text) <= MAX_MESSAGE_LENGTH

\* ------------------------------------------- claims: background work ---
\* C9 (as claimed): a reminder is sent to an assignee only after a
\* RecipientGate call has allowed that assignee.
C9_ReminderAfterGate ==
    \A w \in Runners, a \in Assignees :
        remind[w][a].st # "none" => a \in gateAllowed

\* C10: once execute() or a _check run has returned, raised or been
\* cancelled, the ephemeral session it created is not live any more.
C10_EphemeralDestroyed ==
    /\ tpc \in {"returned", "raised", "cancelled"} => trigEph # "live"
    /\ \A w \in Runners :
         chk[w].pc \in {"done", "raised", "cancelled"} => chk[w].eph # "live"

\* C10 witness: an execute() and a _check run were both cancelled while
\* their query was in flight, and both sessions are destroyed
C10_Witness ==
    /\ tpc = "cancelled" /\ trigEph = "destroyed"
    /\ chk["loop"].pc = "cancelled" /\ chk["loop"].eph = "destroyed"

\* ---------------------------------------- claims: ephemeral sessions ---
\* C11: the sessions minted for trigger and heartbeat work are built with no
\* resume token (so no two of them share one), the session files are never
\* written by that work, and every cached session is one get_session
\* constructed and returned.
C11_EphemeralUnmanaged ==
    /\ [](/\ \A k \in EphOwners : ephResume[k] = NoToken
          /\ \A r \in Recipients :
               sessions[r] # NoInst
                 => (lastGet[r] = sessions[r] /\ instRid[sessions[r]] = r))
    /\ [][sessionFile' = sessionFile]_vars

\* C11 witness: an execute() and a check have both had their session, the
\* owner has a persisted token and the owner's session is cached
C11_Witness ==
    /\ trigEph = "destroyed"
    /\ chk["loop"].eph = "live"
    /\ sessionFile[OwnerId] # NoToken
    /\ sessions[OwnerId] # NoInst

\* ------------------------------------------- claims: heartbeat loop ---
InProgress(w) == chk[w].pc \in {"reminders", "querying"}

\* C12: after start() and a stop() before the first sleep is over, the loop
\* makes no check and no call, also once stop() has returned.
C12_EarlyStopDoesNothing ==
    [][(phase = "early" /\ phase' = "early")
         => UNCHANGED <<chk, remind, hbLast, ephResume>>]_vars

\* C12 witness: stop() has returned from an early stop of a loop that was
\* started again after an earlier run with a check
C12_Witness ==
    /\ phase = "early"
    /\ stopPc = "idle"
    /\ loopPc = "ended"
    /\ chk["loop"].pc # "idle"

\* C13 (as claimed): the check of the loop and a check of trigger_now are
\* never in progress together.
C13_NoOverlap == ~(InProgress("loop") /\ InProgress("manual"))

\* C14: the loop enters a check only from a sleep that is over, never from
\* startup; no check is in progress while the loop sleeps, and a check in
\* progress is not begun again.
C14_SleepBeforeEveryCheck ==
    /\ [](loopPc \in {"first_sleep", "sleep"} => ~InProgress("loop"))
    /\ [][/\ (loopPc' = "check" /\ loopPc # "check")
               => loopPc \in {"first_sleep", "sleep"}
          /\ chk["loop"].pc = "querying" => chk'["loop"].pc # "reminders"]_vars

\* C14 witness: a later check of the loop has begun after the sleep that
\* followed an earlier one
C14_Witness ==
    /\ phase = "rechecked"
    /\ loopPc = "check"
    /\ chk["loop"].pc = "reminders"

\* C15: once stop() has returned and until start() is called, the loop task
\* has ended, no cancellation is pending and no check of the loop is in
\* progress.
C15_StopIsSynchronous ==
    (stopPc = "idle" /\ ~running)
    => (loopPc \in {"none", "ended"} /\ ~cancelReq /\ ~InProgress("loop"))

\* C15 witness: stop() was called during a check with its query in flight
\* and has returned
C15_Witness ==
    /\ stopPc = "idle"
    /\ ~running
    /\ chk["loop"].pc = "cancelled"
    /\ chk["loop"].eph = "destroyed"

\* C16 (as claimed): a check whose reminder sub-flow failed while reminders
\* were still to be sent has nevertheless run its briefing.
C16_ReminderFailureKeepsBriefing ==
    \A w \in Runners :
        (chk[w].pc = "raised" /\ Pending(w) # {}) => chk[w].eph # "none"

\* C17: a reminder the transport rejects leaves the check among its
\* reminders, and the briefing begins only when every assignee that is not
\* the owner and has overdue tasks has had a send attempt.
C17_FailedReminderDoesNotAbort ==
    /\ [](\A w \in Runners : chk[w].eph # "none" => Pending(w) = {})
    /\ [][\A w \in Runners, a \in Assignees :
            (remind[w][a].st = "none" /\ remind'[w][a].st = "failed")
              => chk'[w].pc = "reminders"]_vars

\* C17 witness: the check reached its briefing after one reminder was
\* rejected and another was accepted
C17_Witness ==
    \E a, b \in Assignees :
        /\ remind["loop"][a].st = "failed"
        /\ remind["loop"][b].st = "sent"
        /\ chk["loop"].pc = "querying"

LinesOf(text, kind) == {i \in 1..Len(text) : text[i].line = kind}

\* C18: the reminder for an assignee with n overdue tasks has min(n, 3)
\* task lines, and one line "and N more" exactly when n > 3, with N = n - 3.
C18_ReminderLines ==
    \A w \in Runners, a \in Assignees :
        remind[w][a].st # "none"
        => LET text == remind[w][a].text
               n == overdue[a]
           IN /\ Cardinality(LinesOf(text, "task")) = IF n < 3 THEN n ELSE 3
              /\ Cardinality(LinesOf(text, "more")) = IF n > 3 THEN 1 ELSE 0
              /\ \A i \in LinesOf(text, "more") : text[i].n = n - 3

\* C18 witness: a reminder for 5 overdue tasks was sent: 3 task lines and
\* "and 2 more"
C18_Witness ==
    \E a \in Assignees :
        /\ overdue[a] = 5
        /\ remind["loop"][a].st = "sent"
        /\ \E i \in LinesOf(remind["loop"][a].text, "more") :
             remind["loop"][a].text[i].n = 2

\* ----------------------------------- claims: sessions, concurrent use ---
CountFor(r) == Cardinality({i \in InstIds : i <= nInst /\ instRid[i] = r})

\* C19: every get_session(r) answers with the session cached for r, and
\* while r stays cached no further UserSession is constructed for r.
C19_OneSessionPerRecipient ==
    /\ [](\A r \in Recipients :
            lastGet[r] # NoInst
              => (sessions[r] = lastGet[r] /\ instRid[lastGet[r]] = r))
    /\ [][\A r \in Recipients :
            (sessions[r] # NoInst /\ sessions'[r] # NoInst)
              => (sessions'[r] = sessions[r] /\ CountFor(r)' = CountFor(r))]_vars

\* C19 witness: get_session was called again for a recipient and a single
\* UserSession was constructed for it
C19_Witness ==
    \E r \in Recipients :
        gotTwice[r] /\ CountFor(r) = 1 /\ sessions[r] = lastGet[r]

\* ------------------------------------- claims: trigger notifications ---
\* C20: execute() returns a result it was to notify only when the transport
\* accepted it, and the owner session then holds its record; when the
\* transport rejects the result or the preview, execute() has raised and
\* the owner session got nothing.
C20_RejectionPropagates ==
    /\ (tpc = "returned" /\ tResult.some /\ ev.notify)
         => (Delivered = tResult /\ buffered = <<BufferRecord(tResult.text)>>)
    /\ (tpc = "raised" /\ reply # NoText)
         => (Delivered = NoResult /\ buffered = <<>>)
    /\ (tpc = "raised" /\ trigEph = "none")
         => (trigSent = <<>> /\ buffered = <<>>)

\* C20 witness: the preview was accepted, the result was rejected, and
\* execute() has raised
C20_Witness ==
    /\ tpc = "raised"
    /\ reply # NoText
    /\ Len(trigSent) = 1

\* ------------------------------------------ claims: the gate, again ---
\* C21: validate_recipient answers allowed for the owner, whatever the
\* owner's record says, and for every group and channel.
C21_OwnerAndGroupsAllowed ==
    gateLast.fn = "validate_recipient"
    => /\ (gateLast.kind = "User" /\ is_owner(gateLast.id))
            => (gateLast.allowed /\ gateLast.reason = "owner")
       /\ gateLast.kind \in {"Channel", "Chat"}
            => (gateLast.allowed /\ gateLast.reason = "channel/group")

\* C21 witness: the owner was validated while banned, and allowed
C21_Witness ==
    /\ gateLast.fn = "validate_recipient"
    /\ gateLast.kind = "User"
    /\ is_owner(gateLast.id)
    /\ gateLast.wasBanned
    /\ gateLast.allowed

UserEntity(id, name) == [kind |-> "User", id |-> id, username |-> name]
Nameless(repo) == [r \in Recipients |-> [repo[r] EXCEPT !.username = NoName]]

\* C22 (as claimed): in every repository state and for every user id,
\* validate_recipient_by_id gives the answer and the repository that
\* validate_recipient gives for the user entity with that id.
C22_ByIdEquivalent ==
    \A id \in Recipients, name \in Usernames :
        /\ validate_recipient_by_id_answer(id)
             = validate_recipient_answer(UserEntity(id, name))
        /\ validate_recipient_by_id_users(id)
             = validate_recipient_users(UserEntity(id, name))

\* C22 (amended): the answers are the same, and the repositories are the
\* same but for the username of a user that was not known: by id it is
\* recorded without a username, by entity with the entity's username.
C22_ByIdEquivalentButUsername ==
    \A id \in Recipients, name \in Usernames :
        LET byId == validate_recipient_by_id_users(id)
            byEntity == validate_recipient_users(UserEntity(id, name))
        IN  /\ validate_recipient_by_id_answer(id)
                 = validate_recipient_answer(UserEntity(id, name))
            /\ Nameless(byId) = Nameless(byEntity)
            /\ (users[id].known \/ is_owner(id) \/ name = NoName)
                 => byId = byEntity
            /\ byId # byEntity
                 => (byId[id].username = NoName /\ byEntity[id].username = name)

\* C22 witness: validate_recipient_by_id has whitelisted a user that is not
\* the owner and that is recorded without a username
C22_Witness ==
    /\ gateLast.fn = "validate_recipient_by_id"
    /\ ~is_owner(gateLast.id)
    /\ users[gateLast.id].whitelisted
    /\ users[gateLast.id].username = NoName

\* -------------------------------------- claims: sessions, overlapping ---
\* a completion event that carries a token overwrites the token of the
\* session and its file
LastEventWins ==
    \A c \in Calls :
        (call[c].pc = "open" /\ call'[c].pc = "closing"
           /\ call'[c].evTok # NoToken)
        => /\ instTok'[call[c].inst] = call'[c].evTok
           /\ sessionFile'[instRid[call[c].inst]] = call'[c].evTok

C24_PreviewUnbuffered ==
    /\ trigEph = "live" => (trigSent = PreviewSent(ev) /\ buffered = <<>>)
    /\ buffered # <<>>
         => /\ trigEph = "destroyed"
            /\ Delivered.some
            /\ buffered = <<BufferRecord(Delivered.text)>>
    /\ Delivered.some => buffered # <<>>

\* C24 witness: an execute() sent its preview, then delivered and recorded
\* its result
C24_Witness ==
    /\ tpc = "returned"
    /\ PreviewSent(ev) # <<>>
    /\ Len(trigSent) = 2
    /\ Len(buffered) = 1

\* -------------------------------------------------- claims: the roles ---
\* C25: the options of a UserSession have the owner tools, the external
\* servers and the bypass mode exactly when its recipient is the owner;
\* any other session has the external tools, the jobs server alone and the
\* default mode.
C25_RoleByOwnerId ==
    \A i \in InstIds :
        i <= nInst
        => IF instRid[i] = OwnerId
           THEN /\ _build_options(i).allowed_tools = OWNER_ALLOWED_TOOLS
                /\ ExternalServers \subseteq _build_options(i).mcp_servers
                /\ _build_options(i).permission_mode = "bypassPermissions"
           ELSE /\ _build_options(i).allowed_tools = EXTERNAL_ALLOWED_TOOLS
                /\ _build_options(i).mcp_servers = {"jobs"}
                /\ _build_options(i).permission_mode = "default"

\* C25 witness: the owner and another recipient both have their session
C25_Witness ==
    \E r \in Recipients :
        /\ r # OwnerId
        /\ sessions[OwnerId] # NoInst
        /\ sessions[r] # NoInst

\* ------------------------------------------ claims: heartbeat briefing ---
\* C26 (as claimed): a check whose reply contains the marker sends nothing
\* to the owner; any other reply that is not blank is sent as the bulb
\* line followed by the stripped reply, cut to the maximum length.
C26_BriefingMessage ==
    \A w \in Runners :
        (chk[w].pc = "done" /\ Strip(hbLast[w].reply) # NoText)
        => IF Contains(hbLast[w].reply, HEARTBEAT_OK_MARKER)
           THEN hbLast[w].sent = NoResult
           ELSE LET full == Bulb \o <<"\n">> \o Strip(hbLast[w].reply)
                IN  hbLast[w].sent =
                      SomeResult(IF Len(full) > MAX_MESSAGE_LENGTH
                                 THEN SubSeq(full, 1, MAX_MESSAGE_LENGTH)
                                 ELSE full)

\* C27: no step of a heartbeat check changes the session manager, a
\* session, a session file or the records of the owner session, while a
\* result execute() delivered is recorded in the owner's cached session.
C27_BriefingBypassesOwnerSession ==
    /\ [][(chk' # chk \/ hbLast' # hbLast) => UNCHANGED <<sessVars, buffered>>]_vars
    /\ []((tpc = "returned" /\ tResult.some /\ ev.notify)
            => (buffered # <<>> /\ sessions[OwnerId] # NoInst))

\* C27 witness: a check has sent its briefing and the owner has no session
C27_Witness ==
    /\ chk["loop"].pc = "done"
    /\ hbLast["loop"].sent.some
    /\ sessions[OwnerId] = NoInst
    /\ buffered = <<>>

\* C28 (as claimed): a run whose query answered a backend failure does not
\* end as a silent one: execute() returns a result and the check sends its
\* message.
C28_FailureIsNotSilence ==
    /\ (tpc = "returned" /\ StartsWith(reply, <<ErrorMark>>)) => tResult.some
    /\ \A w \in Runners :
         (chk[w].pc = "done" /\ StartsWith(hbLast[w].reply, <<ErrorMark>>))
         => hbLast[w].sent.some

\* ------------------------------------------------ claims: the updater ---
\* C29: an update is triggered only by a handle() that finds _pending set
\* and clears it; _pending is set only by a check that found commits; a
\* check that answers an error or no commits does not set _pending and
\* triggers nothing; there are never more updates than such checks.
C29_TwoStepUpdate ==
    /\ [][/\ updTriggered' # updTriggered
               => (_pending /\ ~_pending' /\ updTriggered' = updTriggered + 1)
          /\ (_pending' /\ ~_pending)
               => (updLast' = "available" /\ updFound' = updFound + 1)
          /\ updLast' \in {"error", "current", "raised"}
               => (_pending' = _pending /\ updTriggered' = updTriggered)]_vars
    /\ [](updTriggered <= updFound)

\* C29 witness: an update was triggered and confirmed once, and a later
\* check answered an error
C29_Witness ==
    /\ updTriggered = 1
    /\ updLast = "error"
    /\ ~_pending

\* ---------------------------------------- claims: the loop, liveness ---
\* C30: a check of the loop that raises leaves the loop in its next sleep,
\* and while the runner stays running another check begins.
C30_LoopSurvivesFailure ==
    /\ [][(chk["loop"].pc # "raised" /\ chk'["loop"].pc = "raised")
            => loopPc' = "sleep"]_vars
    /\ (chk["loop"].pc = "raised" /\ running)
         ~> (InProgress("loop") \/ ~running)

\* C30 witness: a later check of the loop has raised and the loop sleeps
\* again
C30_Witness ==
    /\ chk["loop"].pc = "raised"
    /\ loopPc = "sleep"
    /\ running
    /\ phase = "rechecked"

=============================================================================
